---- MODULE Spec2Model ----
(***************************************************************************)
(* The division hierarchy store of api/app/services/division.py.           *)
(*                                                                         *)
(* The store is the "divisions" table: a function from the ids of the rows *)
(* that exist to their columns.  Every service method is an operator that  *)
(* maps a store and the call's inputs to the outcome of the call (the kind *)
(* of result, the store it leaves behind); every action applies one method *)
(* to the current store, up to its commit.  move_division commits twice,   *)
(* the move and then the renumbering of the old group, and the table of    *)
(* its first commit is a state.  A call that raises leaves the state as it *)
(* is, so what a call answers is read off the operator, applied to the     *)
(* state.                                                                  *)
(*                                                                         *)
(* The parent_id column declares a foreign key to divisions.id            *)
(* (models/base.py, line 45), and the only database the settings admit is  *)
(* PostgreSQL (core/config.py, lines 19 and 41), which refuses a commit    *)
(* that breaks the key: the key is enforced in every state.  The autoflush *)
(* setting of the session the service is handed is fixed, either way, in   *)
(* the initial state: the session factory the routes import                *)
(* (get_db_session) is not in core/database.py, a sqlmodel Session has     *)
(* autoflush on unless told otherwise, and the factory that is in          *)
(* core/database.py sets it off.                                           *)
(***************************************************************************)
EXTENDS Integers, Sequences, FiniteSets, TLC

VARIABLES
    divisions,    \* the table: id -> row
    nextId,       \* the next value of the primary-key sequence
    fkEnforced,   \* the database enforces the declared foreign key
    commits,      \* number of calls whose (first) commit went through so far
    sessions,     \* per database session: the call in flight, if any
    autoflush     \* whether a session writes pending changes before a query

vars == <<divisions, nextId, fkEnforced, commits, sessions, autoflush>>

----------------------------------------------------------------------------
(* Bounds of the exploration. *)

\* at most this many rows are ever inserted
MaxId == 3
\* at most this many calls commit a change
MaxCommits == 4

----------------------------------------------------------------------------
(* Values. *)

\* Python's None, for Optional[int] columns and inputs (ids and sort orders
\* that the model uses are >= 0); the string "NONE" is None for short_name
NULL == -1

\* codes, in both letter cases
Codes == {"HQ", "hq", "ALPHA"}

\* str.upper() on the codes of the model
Upper(c) == IF c = "hq" THEN "HQ" ELSE c

\* the collation order of the names of the model
NameRank(n) == IF n = "Alpha" THEN 1 ELSE 2

\* Python truthiness of an Optional[int]: None and 0 are falsy
Truthy(x) == x # NULL /\ x # 0

----------------------------------------------------------------------------
(* Reads. *)

\* get_by_id: the id of the row, or NULL when no row (or only a soft-deleted
\* one, unless include_deleted) has that id
get_by_id(st, division_id, include_deleted) ==
    IF division_id \in DOMAIN st
       /\ (include_deleted \/ ~st[division_id].is_deleted)
    THEN division_id
    ELSE NULL

\* The order in which the database yields the rows of the table to a query,
\* as far as the ORDER BY of the query leaves it open: stored[i] is the place
\* of row i.  No query of the service names id as a key, and the place of a
\* row changes as rows are written, so a query may meet any order of the ids.
StoredOrders == Permutations(1..MaxId)

\* the rows in the order of their ids, one of the orders; used where a call
\* looks only at whether a query finds a row, or how many
ById == [i \in 1..MaxId |-> i]

\* .first(): the row of a result that the database yields first
First(hits, stored) ==
    CHOOSE i \in hits : \A j \in hits : stored[i] <= stored[j]

\* get_by_code with the is_deleted filter left out
get_by_code_unfiltered(st, code, include_deleted, stored) ==
    LET hits == {i \in DOMAIN st : st[i].code = code}
    IN IF hits = {} THEN NULL ELSE First(hits, stored)

\* get_by_code: Division.code == code is an exact, case-sensitive comparison;
\* the query has no ORDER BY, and of several rows of one code .first() gives
\* the one the database yields first
get_by_code(st, code, include_deleted, stored) ==
    LET hits == {i \in DOMAIN st :
                    /\ st[i].code = code
                    /\ (include_deleted \/ ~st[i].is_deleted)}
    IN IF hits = {} THEN NULL ELSE First(hits, stored)

\* ORDER BY sort_order, name; rows that tie on both come as the database
\* yields them, as the query names no further key
Before(st, i, j, stored) ==
    \/ st[i].sort_order < st[j].sort_order
    \/ /\ st[i].sort_order = st[j].sort_order
       /\ NameRank(st[i].name) < NameRank(st[j].name)
    \/ /\ st[i].sort_order = st[j].sort_order
       /\ st[i].name = st[j].name
       /\ stored[i] < stored[j]

RECURSIVE OrderBy(_, _, _)
OrderBy(st, ids, stored) ==
    IF ids = {} THEN <<>>
    ELSE LET first == CHOOSE i \in ids :
                          \A j \in ids \ {i} : Before(st, i, j, stored)
         IN <<first>> \o OrderBy(st, ids \ {first}, stored)

\* get_children with the is_deleted filter left out
get_children_unfiltered(st, parent_id, include_deleted, stored) ==
    OrderBy(st, {i \in DOMAIN st : st[i].parent_id = parent_id}, stored)

\* get_children: the ids of the rows with that parent_id, ordered
get_children(st, parent_id, include_deleted, stored) ==
    OrderBy(st,
            {i \in DOMAIN st :
                /\ st[i].parent_id = parent_id
                /\ (include_deleted \/ ~st[i].is_deleted)},
            stored)

\* _get_next_sort_order with an is_deleted = False filter on the query
_get_next_sort_order_live(st, parent_id) ==
    LET orders == {st[i].sort_order :
                      i \in {j \in DOMAIN st : /\ st[j].parent_id = parent_id
                                               /\ ~st[j].is_deleted}}
        max_order == IF orders = {} THEN 0
                     ELSE CHOOSE m \in orders : \A o \in orders : o <= m
    IN max_order + 10

\* _get_next_sort_order: the query has no is_deleted filter
_get_next_sort_order(st, parent_id) ==
    LET orders == {st[i].sort_order : i \in {j \in DOMAIN st : st[j].parent_id = parent_id}}
        max_order == IF orders = {} THEN 0
                     ELSE CHOOSE m \in orders : \A o \in orders : o <= m
    IN max_order + 10

\* _would_create_cycle: the walk up the parent_id links.  get_by_id is called
\* without include_deleted, so a soft-deleted row ends the walk like a missing
\* one.  "loop" is the walk that never ends.
RECURSIVE CycleWalk(_, _, _, _)
CycleWalk(st, division_id, current_id, seen) ==
    IF ~Truthy(current_id) THEN "no"
    ELSE IF current_id = division_id THEN "yes"
    ELSE IF current_id \in seen THEN "loop"
    ELSE LET parent == get_by_id(st, current_id, FALSE)
         IN CycleWalk(st, division_id,
                      IF parent # NULL THEN st[parent].parent_id ELSE NULL,
                      seen \cup {current_id})

\* _would_create_cycle that looks at potential_parent_id only and does not
\* walk further up
_would_create_cycle_one_level(st, division_id, potential_parent_id) ==
    IF Truthy(potential_parent_id) /\ potential_parent_id = division_id
    THEN "yes" ELSE "no"

_would_create_cycle(st, division_id, potential_parent_id) ==
    CycleWalk(st, division_id, potential_parent_id, {})

\* what a listing gives back: the ids in order, or the error it ends in
ListResult(kind, seq) == [kind |-> kind, seq |-> seq]

\* column ILIKE '%search%' on the values of the model: a value contains the
\* search text, ignoring case, exactly when the two are equal after
\* upper-casing; a NULL column ("NONE") matches nothing
ILike(value, search) == value # "NONE" /\ Upper(value) = Upper(search)

\* the rows get_all and get_list select: the is_deleted filter unless
\* include_deleted, and the search filter over code, name and short_name when
\* a search text is given ("NONE" is no search text)
Selected(st, include_deleted, search) ==
    {i \in DOMAIN st :
        /\ (include_deleted \/ ~st[i].is_deleted)
        /\ (search # "NONE" =>
               \/ ILike(st[i].code, search)
               \/ ILike(st[i].name, search)
               \/ ILike(st[i].short_name, search))}

\* get_list(include_deleted, search, active_only): with active_only the
\* filter names Division.is_active, an attribute the Division model does not
\* have, and the call ends in AttributeError
get_list(st, include_deleted, search, active_only, stored) ==
    IF active_only THEN ListResult("AttributeError", <<>>)
    ELSE ListResult("ok",
             OrderBy(st, Selected(st, include_deleted, search), stored))

\* get_all(skip, limit, include_deleted, search, active_only): get_list with
\* OFFSET skip LIMIT limit
get_all(st, skip, limit, include_deleted, search, active_only, stored) ==
    IF active_only THEN ListResult("AttributeError", <<>>)
    ELSE LET rows == OrderBy(st, Selected(st, include_deleted, search), stored)
             last == IF skip + limit < Len(rows) THEN skip + limit ELSE Len(rows)
         IN ListResult("ok", SubSeq(rows, skip + 1, last))

\* what a hierarchy query gives back: the ids in order, or the error it
\* ends in
TreeResult(kind, seq) == [kind |-> kind, seq |-> seq]

\* _get_subtree: the division, then the subtree of each child in the order
\* of get_children.  path holds the ids of the calls still open: a division
\* met again below itself means the recursion never ends, and the call ends
\* in RecursionError.
RECURSIVE _get_subtree(_, _, _, _), SubtreesOf(_, _, _, _)
_get_subtree(st, root_id, stored, path) ==
    IF get_by_id(st, root_id, FALSE) = NULL THEN TreeResult("ok", <<>>)
    ELSE IF root_id \in path THEN TreeResult("RecursionError", <<>>)
    ELSE LET below == SubtreesOf(st, get_children(st, root_id, FALSE, stored),
                                 stored, path \cup {root_id})
         IN IF below.kind # "ok" THEN below
            ELSE TreeResult("ok", <<root_id>> \o below.seq)

\* the loop of _get_subtree: result.extend(self._get_subtree(child.id))
SubtreesOf(st, children, stored, path) ==
    IF children = <<>> THEN TreeResult("ok", <<>>)
    ELSE LET first == _get_subtree(st, Head(children), stored, path)
             rest == SubtreesOf(st, Tail(children), stored, path)
         IN IF first.kind # "ok" THEN first
            ELSE IF rest.kind # "ok" THEN rest
            ELSE TreeResult("ok", first.seq \o rest.seq)

\* ORDER BY sort_order alone; rows with equal sort_order come as the database
\* yields them
RECURSIVE OrderBySortOrder(_, _, _)
OrderBySortOrder(st, ids, stored) ==
    IF ids = {} THEN <<>>
    ELSE LET first == CHOOSE i \in ids : \A j \in ids \ {i} :
                          \/ st[i].sort_order < st[j].sort_order
                          \/ /\ st[i].sort_order = st[j].sort_order
                             /\ stored[i] < stored[j]
         IN <<first>> \o OrderBySortOrder(st, ids \ {first}, stored)

\* get_hierarchy_tree with the is_deleted filter of the root listing left out
get_hierarchy_tree_unfiltered(st, root_id, stored) ==
    IF Truthy(root_id) THEN _get_subtree(st, root_id, stored, {})
    ELSE TreeResult("ok",
             OrderBySortOrder(st,
                 {i \in DOMAIN st : st[i].parent_id = NULL}, stored))

\* get_hierarchy_tree(root_id): `if root_id:` sends None and 0 alike to the
\* listing of the roots
get_hierarchy_tree(st, root_id, stored) ==
    IF Truthy(root_id) THEN _get_subtree(st, root_id, stored, {})
    ELSE TreeResult("ok",
             OrderBySortOrder(st,
                 {i \in DOMAIN st : /\ st[i].parent_id = NULL
                                    /\ ~st[i].is_deleted},
                 stored))

----------------------------------------------------------------------------
(* Commit. *)

\* the column parent_id declares foreign_key = "divisions.id"
FKHolds(st) ==
    \A i \in DOMAIN st :
        st[i].parent_id # NULL => st[i].parent_id \in DOMAIN st

\* a commit on a table whose parent_id column declares no foreign key
CommitOk_undeclared(st, fk) == TRUE

\* db.commit(): a database that enforces the foreign key (fk) refuses a
\* change that breaks it
CommitOk(st, fk) == fk => FKHolds(st)

\* the outcome of a call
Outcome(kind, st, count) == [kind |-> kind, st |-> st, count |-> count]

----------------------------------------------------------------------------
(* Writes. *)

\* create that assigns a sort order only when none is given: a given 0 is
\* stored as 0
create_zero_kept(st, fk, nid, inp) ==
    IF get_by_code(st, inp.code, TRUE, ById) # NULL
    THEN Outcome("CodeExists", st, 0)
    ELSE IF Truthy(inp.parent_id) /\ get_by_id(st, inp.parent_id, FALSE) = NULL
    THEN Outcome("ParentNotFound", st, 0)
    ELSE LET sort_order ==
                 IF inp.sort_order = NULL
                 THEN _get_next_sort_order(st, inp.parent_id)
                 ELSE inp.sort_order
             row == [code |-> inp.code, name |-> inp.name,
                     short_name |-> inp.short_name,
                     parent_id |-> inp.parent_id,
                     sort_order |-> sort_order,
                     is_internal |-> inp.is_internal,
                     is_deleted |-> FALSE]
             new == [i \in DOMAIN st \cup {nid} |->
                        IF i = nid THEN row ELSE st[i]]
         IN IF CommitOk(new, fk)
            THEN Outcome("ok", new, 0)
            ELSE Outcome("IntegrityError", st, 0)

\* create(division_data); nid is the id the sequence hands out
create(st, fk, nid, inp) ==
    IF get_by_code(st, inp.code, TRUE, ById) # NULL
    THEN Outcome("CodeExists", st, 0)
    ELSE IF Truthy(inp.parent_id) /\ get_by_id(st, inp.parent_id, FALSE) = NULL
    THEN Outcome("ParentNotFound", st, 0)
    ELSE LET sort_order ==
                 IF inp.sort_order = NULL \/ inp.sort_order = 0
                 THEN _get_next_sort_order(st, inp.parent_id)
                 ELSE inp.sort_order
             row == [code |-> inp.code, name |-> inp.name,
                     short_name |-> inp.short_name,
                     parent_id |-> inp.parent_id,
                     sort_order |-> sort_order,
                     is_internal |-> inp.is_internal,
                     is_deleted |-> FALSE]
             new == [i \in DOMAIN st \cup {nid} |->
                        IF i = nid THEN row ELSE st[i]]
         IN IF CommitOk(new, fk)
            THEN Outcome("ok", new, 0)
            ELSE Outcome("IntegrityError", st, 0)

\* the setattr loop over model_dump() without exclude_unset: the nullable
\* fields the patch does not set are written as None
ApplyPatch_unset_as_none(row, patch) ==
    [f \in DOMAIN row |->
        IF f \in DOMAIN patch THEN patch[f]
        ELSE IF f = "parent_id" THEN NULL
        ELSE IF f = "short_name" THEN "NONE"
        ELSE row[f]]

\* setattr(division, field, value) for every field the patch sets
ApplyPatch(row, patch) ==
    [f \in DOMAIN row |-> IF f \in DOMAIN patch THEN patch[f] ELSE row[f]]

\* update with the comparison of parent_id to division_id left out
update_no_self_check(st, fk, division_id, patch) ==
    IF get_by_id(st, division_id, FALSE) = NULL
    THEN Outcome("NotFound", st, 0)
    ELSE IF /\ "code" \in DOMAIN patch
            /\ patch.code # st[division_id].code
            /\ get_by_code(st, patch.code, TRUE, ById) # NULL
    THEN Outcome("CodeExists", st, 0)
    ELSE IF "parent_id" \in DOMAIN patch /\ patch.parent_id # NULL
            /\ patch.parent_id # 0
            /\ get_by_id(st, patch.parent_id, FALSE) = NULL
    THEN Outcome("ParentNotFound", st, 0)
    ELSE LET walk == IF "parent_id" \in DOMAIN patch /\ patch.parent_id # NULL
                        /\ patch.parent_id # 0
                     THEN _would_create_cycle(st, division_id, patch.parent_id)
                     ELSE "no"
             new == [st EXCEPT ![division_id] = ApplyPatch(@, patch)]
         IN IF walk = "loop" THEN Outcome("Hang", st, 0)
            ELSE IF walk = "yes" THEN Outcome("CircularReference", st, 0)
            ELSE IF CommitOk(new, fk) THEN Outcome("ok", new, 0)
            ELSE Outcome("IntegrityError", st, 0)

\* update(division_id, update_data); the patch is a record of the fields set
update(st, fk, division_id, patch) ==
    IF get_by_id(st, division_id, FALSE) = NULL
    THEN Outcome("NotFound", st, 0)
    ELSE IF /\ "code" \in DOMAIN patch
            /\ patch.code # st[division_id].code
            /\ get_by_code(st, patch.code, TRUE, ById) # NULL
    THEN Outcome("CodeExists", st, 0)
    ELSE IF "parent_id" \in DOMAIN patch /\ patch.parent_id # NULL
            /\ patch.parent_id = division_id
    THEN Outcome("SelfParent", st, 0)
    ELSE IF "parent_id" \in DOMAIN patch /\ patch.parent_id # NULL
            /\ patch.parent_id # 0
            /\ get_by_id(st, patch.parent_id, FALSE) = NULL
    THEN Outcome("ParentNotFound", st, 0)
    ELSE LET walk == IF "parent_id" \in DOMAIN patch /\ patch.parent_id # NULL
                        /\ patch.parent_id # 0
                     THEN _would_create_cycle(st, division_id, patch.parent_id)
                     ELSE "no"
             new == [st EXCEPT ![division_id] = ApplyPatch(@, patch)]
         IN IF walk = "loop" THEN Outcome("Hang", st, 0)
            ELSE IF walk = "yes" THEN Outcome("CircularReference", st, 0)
            ELSE IF CommitOk(new, fk) THEN Outcome("ok", new, 0)
            ELSE Outcome("IntegrityError", st, 0)

\* delete that commits the soft delete before it looks for children
delete_commit_first(st, fk, division_id, soft_delete) ==
    IF get_by_id(st, division_id, FALSE) = NULL
    THEN Outcome("NotFound", st, 0)
    ELSE LET children == get_children(st, division_id, FALSE, ById)
             new == IF soft_delete
                    THEN [st EXCEPT ![division_id].is_deleted = TRUE]
                    ELSE [i \in DOMAIN st \ {division_id} |-> st[i]]
         IN IF ~CommitOk(new, fk) THEN Outcome("IntegrityError", st, 0)
            ELSE IF Len(children) > 0
            THEN Outcome("HasChildren", new, Len(children))
            ELSE Outcome("ok", new, 0)

\* delete that takes the rows under the division along: their is_deleted is
\* set with a soft delete, they are removed with a hard one
delete_cascade(st, fk, division_id, soft_delete) ==
    IF get_by_id(st, division_id, FALSE) = NULL
    THEN Outcome("NotFound", st, 0)
    ELSE LET children == get_children(st, division_id, FALSE, ById)
             under == {i \in DOMAIN st : st[i].parent_id = division_id}
             new == IF soft_delete
                    THEN [i \in DOMAIN st |->
                             IF i = division_id \/ i \in under
                             THEN [st[i] EXCEPT !.is_deleted = TRUE]
                             ELSE st[i]]
                    ELSE [i \in DOMAIN st \ ({division_id} \cup under) |-> st[i]]
         IN IF Len(children) > 0
            THEN Outcome("HasChildren", st, Len(children))
            ELSE IF CommitOk(new, fk) THEN Outcome("ok", new, 0)
            ELSE Outcome("IntegrityError", st, 0)

\* delete(division_id, soft_delete)
delete(st, fk, division_id, soft_delete) ==
    IF get_by_id(st, division_id, FALSE) = NULL
    THEN Outcome("NotFound", st, 0)
    ELSE LET children == get_children(st, division_id, FALSE, ById)
             new == IF soft_delete
                    THEN [st EXCEPT ![division_id].is_deleted = TRUE]
                    ELSE [i \in DOMAIN st \ {division_id} |-> st[i]]
         IN IF Len(children) > 0
            THEN Outcome("HasChildren", st, Len(children))
            ELSE IF CommitOk(new, fk) THEN Outcome("ok", new, 0)
            ELSE Outcome("IntegrityError", st, 0)

\* _reorder_siblings with sort_order = i * 10: the numbering starts at 0
_reorder_siblings_from_zero(st, parent_id, stored) ==
    LET siblings == get_children(st, parent_id, FALSE, stored)
        pos(i) == CHOOSE k \in 1..Len(siblings) : siblings[k] = i
    IN [i \in DOMAIN st |->
           IF \E k \in 1..Len(siblings) : siblings[k] = i
           THEN [st[i] EXCEPT !.sort_order = (pos(i) - 1) * 10]
           ELSE st[i]]

\* _reorder_siblings(parent_id): sort_order = (i + 1) * 10 along get_children
_reorder_siblings(st, parent_id, stored) ==
    LET siblings == get_children(st, parent_id, FALSE, stored)
        pos(i) == CHOOSE k \in 1..Len(siblings) : siblings[k] = i
    IN [i \in DOMAIN st |->
           IF \E k \in 1..Len(siblings) : siblings[k] = i
           THEN [st[i] EXCEPT !.sort_order = pos(i) * 10]
           ELSE st[i]]

\* the table as a query of the session sees it while parent_id of the loaded
\* division is assigned and not yet committed: with autoflush the assignment
\* is written before the query runs, without it the query reads the table as
\* it is stored
QueryView(st, division_id, new_parent_id) ==
    IF autoflush
    THEN [st EXCEPT ![division_id].parent_id = new_parent_id]
    ELSE st

\* move_division with the test old_parent_id != new_parent_id left out: the
\* old group is renumbered after every move
move_division_always_reorder(st, fk, division_id, new_parent_id, new_sort_order, stored) ==
    IF get_by_id(st, division_id, FALSE) = NULL
    THEN Outcome("NotFound", st, 0)
    ELSE IF Truthy(new_parent_id) /\ new_parent_id = division_id
    THEN Outcome("SelfParent", st, 0)
    ELSE LET walk == IF Truthy(new_parent_id)
                     THEN _would_create_cycle(st, division_id, new_parent_id)
                     ELSE "no"
             old_parent_id == st[division_id].parent_id
             moved == [st EXCEPT
                          ![division_id].parent_id = new_parent_id,
                          ![division_id].sort_order =
                              IF new_sort_order # NULL THEN new_sort_order
                              ELSE _get_next_sort_order(
                                       QueryView(st, division_id, new_parent_id),
                                       new_parent_id)]
         IN IF walk = "loop" THEN Outcome("Hang", st, 0)
            ELSE IF walk = "yes" THEN Outcome("CircularReference", st, 0)
            ELSE IF ~CommitOk(moved, fk) THEN Outcome("IntegrityError", st, 0)
            ELSE Outcome("ok", _reorder_siblings(moved, old_parent_id, stored), 0)

\* move_division that asks _get_next_sort_order for the old group instead of
\* the new one
move_division_old_group_order(st, fk, division_id, new_parent_id, new_sort_order, stored) ==
    IF get_by_id(st, division_id, FALSE) = NULL
    THEN Outcome("NotFound", st, 0)
    ELSE IF Truthy(new_parent_id) /\ new_parent_id = division_id
    THEN Outcome("SelfParent", st, 0)
    ELSE LET walk == IF Truthy(new_parent_id)
                     THEN _would_create_cycle(st, division_id, new_parent_id)
                     ELSE "no"
             old_parent_id == st[division_id].parent_id
             moved == [st EXCEPT
                          ![division_id].parent_id = new_parent_id,
                          ![division_id].sort_order =
                              IF new_sort_order # NULL THEN new_sort_order
                              ELSE _get_next_sort_order(
                                       QueryView(st, division_id, new_parent_id),
                                       old_parent_id)]
         IN IF walk = "loop" THEN Outcome("Hang", st, 0)
            ELSE IF walk = "yes" THEN Outcome("CircularReference", st, 0)
            ELSE IF ~CommitOk(moved, fk) THEN Outcome("IntegrityError", st, 0)
            ELSE IF old_parent_id # new_parent_id
            THEN Outcome("ok", _reorder_siblings(moved, old_parent_id, stored), 0)
            ELSE Outcome("ok", moved, 0)

\* move_division, lines 252-274: the checks, the assignment of parent_id and
\* sort_order, and the first commit.  The query of _get_next_sort_order runs
\* after division.parent_id is assigned and before the commit: it reads the
\* table through QueryView.
move_division_first_commit(st, fk, division_id, new_parent_id, new_sort_order) ==
    IF get_by_id(st, division_id, FALSE) = NULL
    THEN Outcome("NotFound", st, 0)
    ELSE IF Truthy(new_parent_id) /\ new_parent_id = division_id
    THEN Outcome("SelfParent", st, 0)
    ELSE LET walk == IF Truthy(new_parent_id)
                     THEN _would_create_cycle(st, division_id, new_parent_id)
                     ELSE "no"
             moved == [st EXCEPT
                          ![division_id].parent_id = new_parent_id,
                          ![division_id].sort_order =
                              IF new_sort_order # NULL THEN new_sort_order
                              ELSE _get_next_sort_order(
                                       QueryView(st, division_id, new_parent_id),
                                       new_parent_id)]
         IN IF walk = "loop" THEN Outcome("Hang", st, 0)
            ELSE IF walk = "yes" THEN Outcome("CircularReference", st, 0)
            ELSE IF ~CommitOk(moved, fk) THEN Outcome("IntegrityError", st, 0)
            ELSE Outcome("ok", moved, 0)

\* move_division(division_id, new_parent_id, new_sort_order), the call as a
\* whole: the first commit and, when the parent changed, _reorder_siblings
\* of the old group, which commits again (lines 277-278)
move_division(st, fk, division_id, new_parent_id, new_sort_order, stored) ==
    LET out == move_division_first_commit(st, fk, division_id, new_parent_id,
                                          new_sort_order)
    IN IF out.kind = "ok" /\ st[division_id].parent_id # new_parent_id
       THEN Outcome("ok",
                    _reorder_siblings(out.st, st[division_id].parent_id, stored),
                    0)
       ELSE out

\* restore(division_id): the un-delete goes through update
restore(st, fk, division_id) ==
    IF get_by_id(st, division_id, TRUE) = NULL
    THEN Outcome("NotFound", st, 0)
    ELSE IF ~st[division_id].is_deleted
    THEN Outcome("NotDeleted", st, 0)
    ELSE update(st, fk, division_id, [is_deleted |-> FALSE])

----------------------------------------------------------------------------
(* Inputs of the calls. *)

\* ids a caller may name as the target: every id handed out so far, and the
\* next one, which no row has yet
IdInputs == 1..nextId

\* parent ids a caller may name: None, 0, and the ids above
ParentInputs == {NULL, 0} \cup IdInputs

\* sort orders a caller may give: None, 0, and one that falls between the
\* multiples of 10 the service hands out
SortInputs == {NULL, 0, 15}

\* the name a caller gives with each code: two codes share a name, so that
\* siblings can tie on it, and one differs
NameFor(c) == IF c = "hq" THEN "Bravo" ELSE "Alpha"

\* short_name and is_internal are left at the defaults of DivisionCreate
CreateInputs ==
    {[code |-> c, name |-> NameFor(c), short_name |-> "NONE",
      parent_id |-> p, sort_order |-> s, is_internal |-> FALSE] :
        c \in Codes, p \in ParentInputs, s \in SortInputs}

\* DivisionUpdate with exclude_unset: a patch is a record of the fields set
Patches ==
    {<<>>}
    \cup {[code |-> c] : c \in Codes}
    \cup {[name |-> "Bravo", short_name |-> "S", is_internal |-> TRUE]}
    \cup {[parent_id |-> p] : p \in ParentInputs}
    \cup {[sort_order |-> 15]}
    \cup {[is_deleted |-> b] : b \in BOOLEAN}

----------------------------------------------------------------------------
(* The state machine. *)

\* the requests being served at a time, each with a session of its own
Sessions == {1, 2}

\* a session with no call in flight
Idle == [pc |-> "idle"]

Init ==
    /\ divisions = <<>>
    /\ nextId = 1
    /\ fkEnforced = TRUE
    /\ autoflush \in BOOLEAN
    /\ commits = 0
    /\ sessions = [s \in Sessions |-> Idle]

\* the call ends with outcome out; a call that does not commit leaves the
\* store as its outcome says (unchanged, as far as the method wrote nothing)
Step(out) ==
    /\ commits < MaxCommits
    /\ \A s \in Sessions : sessions[s].pc = "idle"
    /\ divisions' = out.st
    /\ commits' = IF out.kind = "ok" THEN commits + 1 ELSE commits
    /\ UNCHANGED <<fkEnforced, sessions, autoflush>>

\* the session of s goes to record r
Goto(s, r) == sessions' = [sessions EXCEPT ![s] = r]

Create ==
    /\ nextId <= MaxId
    /\ \E inp \in CreateInputs :
          LET out == create(divisions, fkEnforced, nextId, inp)
          IN /\ Step(out)
             \* the INSERT draws from the sequence even when it is refused
             /\ nextId' = IF out.kind \in {"ok", "IntegrityError"}
                          THEN nextId + 1 ELSE nextId

Update ==
    \E id \in IdInputs, patch \in Patches :
        /\ Step(update(divisions, fkEnforced, id, patch))
        /\ UNCHANGED nextId

Delete ==
    \E id \in IdInputs, soft_delete \in BOOLEAN :
        /\ Step(delete(divisions, fkEnforced, id, soft_delete))
        /\ UNCHANGED nextId

\* move_division up to its first commit and the refresh (lines 252-274); when
\* the parent changed the call goes on to _reorder_siblings, and the table
\* of the first commit is what is stored until that commits.  The session
\* holds the division as the refresh loaded it.
MoveDivision ==
    /\ commits < MaxCommits
    /\ \A s \in Sessions : sessions[s].pc = "idle"
    /\ \E id \in IdInputs, p \in ParentInputs, so \in SortInputs :
          LET out == move_division_first_commit(divisions, fkEnforced, id, p, so)
          IN /\ divisions' = out.st
             /\ commits' = IF out.kind = "ok" THEN commits + 1 ELSE commits
             /\ IF out.kind = "ok" /\ divisions[id].parent_id # p
                THEN Goto(1, [pc |-> "reorder", id |-> id,
                              old_parent_id |-> divisions[id].parent_id,
                              new_parent_id |-> p,
                              loaded |-> [i \in {id} |-> out.st[id]]])
                ELSE UNCHANGED sessions
    /\ UNCHANGED <<nextId, fkEnforced, autoflush>>

\* the object a query of a session gives for row i of the table: the one the
\* session holds already, with the values it has there, else the row as
\* stored
ObjectOf(st, loaded, i) ==
    IF i \in DOMAIN loaded THEN loaded[i] ELSE st[i]

\* _reorder_siblings, lines 341-343, in a session that holds the objects
\* loaded: the children are those of the table, in its order; sort_order is
\* assigned to the session's objects, and the UPDATEs of the commit set the
\* values that differ from what the objects held
ReorderWrites(st, loaded, parent_id, stored) ==
    LET siblings == get_children(st, parent_id, FALSE, stored)
        pos(i) == CHOOSE k \in 1..Len(siblings) : siblings[k] = i
    IN [i \in {j \in DOMAIN st :
                  /\ \E k \in 1..Len(siblings) : siblings[k] = j
                  /\ ObjectOf(st, loaded, j).sort_order # pos(j) * 10} |->
           pos(i) * 10]

\* _reorder_siblings, lines 341-343: the query for the children and the
\* assignments
ReorderSiblings(s) ==
    /\ sessions[s].pc = "reorder"
    /\ \E stored \in StoredOrders :
          Goto(s, [pc |-> "reorder_commit",
                   writes |-> ReorderWrites(divisions, sessions[s].loaded,
                                            sessions[s].old_parent_id, stored)])
    /\ UNCHANGED <<divisions, nextId, fkEnforced, commits, autoflush>>

\* _reorder_siblings, line 344: the commit; an UPDATE of a row that is gone
\* raises and nothing is written
CommitReorder(s) ==
    /\ sessions[s].pc = "reorder_commit"
    /\ LET writes == sessions[s].writes
       IN IF DOMAIN writes \subseteq DOMAIN divisions
          THEN divisions' = [i \in DOMAIN divisions |->
                                IF i \in DOMAIN writes
                                THEN [divisions[i] EXCEPT !.sort_order = writes[i]]
                                ELSE divisions[i]]
          ELSE UNCHANGED divisions
    /\ Goto(s, Idle)
    /\ UNCHANGED <<nextId, fkEnforced, commits, autoflush>>

Restore ==
    \E id \in IdInputs :
        /\ Step(restore(divisions, fkEnforced, id))
        /\ UNCHANGED nextId

Next ==
    \/ Create \/ Update \/ Delete \/ MoveDivision \/ Restore
    \/ \E s \in Sessions : ReorderSiblings(s) \/ CommitReorder(s)

Spec == Init /\ [][Next]_vars

----------------------------------------------------------------------------
(* Concurrent requests.                                                    *)
(*                                                                         *)
(* Requests served by different workers run the same methods on sessions   *)
(* of their own against the one table.  A method runs its queries one by   *)
(* one, changes objects in memory and then calls db.commit(), which writes *)
(* the changes and commits them; nothing in the method locks a row or the  *)
(* table between a query and the commit, and every query reads what is     *)
(* committed at that moment.  Each query and each commit of a call is a    *)
(* step, and the steps of two calls interleave.  A call that raises ends   *)
(* with its session idle.  A query for rows gives the session's own object *)
(* of a row it has loaded before, with the values that object holds, and   *)
(* not the values stored now.                                              *)

\* the fields that setattr changed: the UPDATE the commit sends sets these
Changed(row, patch) ==
    [f \in {g \in DOMAIN patch : patch[g] # row[g]} |-> patch[f]]

\* the positions of a call before its first commit
CreatePcs == {"create_parent", "create_order", "create"}

UpdatePcs == {"update_code", "update_parent", "update_walk", "update"}

DeletePcs == {"delete_children", "delete"}

MovePcs == {"move_walk", "move_order", "move"}

\* the number of calls that began and did not yet reach their first commit
InFlight ==
    Cardinality({s \in Sessions :
                    sessions[s].pc \in CreatePcs \cup UpdatePcs
                                         \cup DeletePcs \cup MovePcs})

\* the number of creates that began and did not yet commit
CreatesInFlight ==
    Cardinality({s \in Sessions : sessions[s].pc \in CreatePcs})

\* a call may start while the calls committed and in flight leave room
CanBegin(s) == sessions[s].pc = "idle" /\ commits + InFlight < MaxCommits

\* inputs of the concurrent calls
ConcurrentCodes == {"HQ", "ALPHA"}

\* parent ids of the concurrent calls: None and the ids a caller may name
ConcurrentParents == {NULL} \cup IdInputs

\* sort_order left out (the default, 0) or given
ConcurrentCreateInputs ==
    {[code |-> c, name |-> NameFor(c), short_name |-> "NONE",
      parent_id |-> p, sort_order |-> so, is_internal |-> FALSE] :
        c \in ConcurrentCodes, p \in ConcurrentParents, so \in {0, 15}}

\* new_sort_order of the concurrent moves: left out, or given
ConcurrentSorts == {NULL, 15}

ConcurrentPatches ==
    {[code |-> c] : c \in ConcurrentCodes}
    \cup {[parent_id |-> p] : p \in ConcurrentParents \cup {0}}
    \cup {[is_deleted |-> TRUE]}

\* db.commit() of session s: the store becomes new if the database accepts
\* it, and the call goes on at next; it is over if the commit raises
CommitStep(s, new, next) ==
    IF CommitOk(new, fkEnforced)
    THEN /\ divisions' = new
         /\ commits' = commits + 1
         /\ Goto(s, next)
    ELSE /\ Goto(s, Idle)
         /\ UNCHANGED <<divisions, commits>>

\* the UPDATE of a commit: the changed fields of row id
WriteRow(st, id, writes) ==
    [st EXCEPT ![id] = ApplyPatch(@, writes)]

\* the commit of the changes to one loaded row: nothing is sent when no field
\* changed; an UPDATE that matches no row (the row is gone) raises
CommitRow(s, id, writes, next) ==
    IF DOMAIN writes = {}
    THEN CommitStep(s, divisions, next)
    ELSE IF id \in DOMAIN divisions
    THEN CommitStep(s, WriteRow(divisions, id, writes), next)
    ELSE Goto(s, Idle) /\ UNCHANGED <<divisions, commits>>

\* one turn of the loop of _would_create_cycle (lines 318-322) from the query
\* for current_id on, in a session that holds the objects loaded: the query
\* finds the row in the table or not, and parent_id is read off the
\* session's object of it.  The walk keeps no object: its variable parent is
\* bound anew every turn, so loaded is what the caller holds, and a row the
\* walk comes to again is read from the table again.  "no" when the walk
\* ends, "yes" when it arrives at division_id, else the id the next turn
\* asks for
WalkTurn(st, loaded, division_id, current_id) ==
    LET parent == get_by_id(st, current_id, FALSE)
        next == IF parent # NULL
                THEN ObjectOf(st, loaded, parent).parent_id
                ELSE NULL
    IN IF ~Truthy(next) THEN [kind |-> "no"]
       ELSE IF next = division_id THEN [kind |-> "yes"]
       ELSE [kind |-> "on", current_id |-> next]

\* create after the parent check: line 157 decides whether line 158 asks for
\* a sort order
CreateAfterParent(inp) ==
    [pc |-> IF inp.sort_order = NULL \/ inp.sort_order = 0
            THEN "create_order" ELSE "create",
     inp |-> inp]

\* create, line 146: the query for the code
BeginCreate(s) ==
    /\ CanBegin(s)
    /\ nextId + CreatesInFlight <= MaxId
    /\ \E inp \in ConcurrentCreateInputs :
          IF get_by_code(divisions, inp.code, TRUE, ById) # NULL
          THEN UNCHANGED sessions
          ELSE IF Truthy(inp.parent_id)
          THEN Goto(s, [pc |-> "create_parent", inp |-> inp])
          ELSE Goto(s, CreateAfterParent(inp))
    /\ UNCHANGED <<divisions, nextId, fkEnforced, commits, autoflush>>

\* create, line 152: the query for the parent
CreateParent(s) ==
    /\ sessions[s].pc = "create_parent"
    /\ IF get_by_id(divisions, sessions[s].inp.parent_id, FALSE) = NULL
       THEN Goto(s, Idle)
       ELSE Goto(s, CreateAfterParent(sessions[s].inp))
    /\ UNCHANGED <<divisions, nextId, fkEnforced, commits, autoflush>>

\* create, line 158: the query of _get_next_sort_order
CreateSortOrder(s) ==
    /\ sessions[s].pc = "create_order"
    /\ Goto(s, [pc |-> "create",
                inp |-> [sessions[s].inp EXCEPT !.sort_order =
                            _get_next_sort_order(divisions,
                                                 sessions[s].inp.parent_id)]])
    /\ UNCHANGED <<divisions, nextId, fkEnforced, commits, autoflush>>

\* create, lines 161-163: the INSERT takes the next id of the sequence
CommitCreate(s) ==
    /\ sessions[s].pc = "create"
    /\ LET row == sessions[s].inp @@ [is_deleted |-> FALSE]
           new == [i \in DOMAIN divisions \cup {nextId} |->
                      IF i = nextId THEN row ELSE divisions[i]]
       IN CommitStep(s, new, Idle)
    /\ nextId' = nextId + 1
    /\ UNCHANGED <<fkEnforced, autoflush>>

\* update after the code check, lines 181-186 up to the next query: obj is
\* the division as line 170 loaded it
UpdateAfterCode(id, obj, patch) ==
    IF "parent_id" \in DOMAIN patch /\ patch.parent_id # NULL
    THEN IF patch.parent_id = id THEN Idle
         ELSE IF patch.parent_id # 0
         THEN [pc |-> "update_parent", id |-> id, obj |-> obj, patch |-> patch]
         ELSE [pc |-> "update", id |-> id, writes |-> Changed(obj, patch)]
    ELSE [pc |-> "update", id |-> id, writes |-> Changed(obj, patch)]

\* update, line 170: the query for the division
BeginUpdate(s) ==
    /\ CanBegin(s)
    /\ \E id \in IdInputs, patch \in ConcurrentPatches :
          IF get_by_id(divisions, id, FALSE) = NULL
          THEN UNCHANGED sessions
          ELSE IF "code" \in DOMAIN patch /\ patch.code # divisions[id].code
          THEN Goto(s, [pc |-> "update_code", id |-> id,
                        obj |-> divisions[id], patch |-> patch])
          ELSE Goto(s, UpdateAfterCode(id, divisions[id], patch))
    /\ UNCHANGED <<divisions, nextId, fkEnforced, commits, autoflush>>

\* update, line 176: the query for the code
UpdateCode(s) ==
    /\ sessions[s].pc = "update_code"
    /\ IF get_by_code(divisions, sessions[s].patch.code, TRUE, ById) # NULL
       THEN Goto(s, Idle)
       ELSE Goto(s, UpdateAfterCode(sessions[s].id, sessions[s].obj,
                                    sessions[s].patch))
    /\ UNCHANGED <<divisions, nextId, fkEnforced, commits, autoflush>>

\* update, line 186: the query for the parent; update holds the parent in
\* its variable parent from here on
UpdateParent(s) ==
    /\ sessions[s].pc = "update_parent"
    /\ IF get_by_id(divisions, sessions[s].patch.parent_id, FALSE) = NULL
       THEN Goto(s, Idle)
       ELSE Goto(s, [pc |-> "update_walk", id |-> sessions[s].id,
                     obj |-> sessions[s].obj, patch |-> sessions[s].patch,
                     current_id |-> sessions[s].patch.parent_id,
                     loaded |-> [i \in {sessions[s].patch.parent_id} |->
                                    divisions[i]]])
    /\ UNCHANGED <<divisions, nextId, fkEnforced, commits, autoflush>>

\* update, line 191: one query of the walk of _would_create_cycle; the
\* object of the new parent is the one line 186 loaded
UpdateWalk(s) ==
    /\ sessions[s].pc = "update_walk"
    /\ LET turn == WalkTurn(divisions, sessions[s].loaded, sessions[s].id,
                            sessions[s].current_id)
       IN IF turn.kind = "yes" THEN Goto(s, Idle)
          ELSE IF turn.kind = "no"
          THEN Goto(s, [pc |-> "update", id |-> sessions[s].id,
                        writes |-> Changed(sessions[s].obj, sessions[s].patch)])
          ELSE Goto(s, [sessions[s] EXCEPT !.current_id = turn.current_id])
    /\ UNCHANGED <<divisions, nextId, fkEnforced, commits, autoflush>>

\* update, lines 195-199: the commit
CommitUpdate(s) ==
    /\ sessions[s].pc = "update"
    /\ CommitRow(s, sessions[s].id, sessions[s].writes, Idle)
    /\ UNCHANGED <<nextId, fkEnforced, autoflush>>

\* delete, line 206: the query for the division
BeginDelete(s) ==
    /\ CanBegin(s)
    /\ \E id \in IdInputs, soft_delete \in BOOLEAN :
          IF get_by_id(divisions, id, FALSE) = NULL
          THEN UNCHANGED sessions
          ELSE Goto(s, [pc |-> "delete_children", id |-> id,
                        soft_delete |-> soft_delete])
    /\ UNCHANGED <<divisions, nextId, fkEnforced, commits, autoflush>>

\* delete, line 211: the query for the children
DeleteChildren(s) ==
    /\ sessions[s].pc = "delete_children"
    /\ IF Len(get_children(divisions, sessions[s].id, FALSE, ById)) > 0
       THEN Goto(s, Idle)
       ELSE Goto(s, [sessions[s] EXCEPT !.pc = "delete"])
    /\ UNCHANGED <<divisions, nextId, fkEnforced, commits, autoflush>>

\* delete, lines 216-217 and 219-220: the commit.  The UPDATE of a soft
\* delete raises when the row is gone; the DELETE of a hard delete that
\* matches no row does not, and the commit goes through
CommitDelete(s) ==
    /\ sessions[s].pc = "delete"
    /\ LET id == sessions[s].id
       IN IF sessions[s].soft_delete
          THEN CommitRow(s, id, [is_deleted |-> TRUE], Idle)
          ELSE CommitStep(s, [i \in DOMAIN divisions \ {id} |-> divisions[i]],
                          Idle)
    /\ UNCHANGED <<nextId, fkEnforced, autoflush>>

\* move_division after the checks, lines 265-269: a given new_sort_order is
\* assigned and the commit is next; line 271 asks for a sort order otherwise
MoveAfterWalk(id, obj, new_parent_id, new_sort_order) ==
    IF new_sort_order # NULL
    THEN [pc |-> "move", id |-> id,
          old_parent_id |-> obj.parent_id,
          new_parent_id |-> new_parent_id,
          writes |-> Changed(obj, [parent_id |-> new_parent_id,
                                   sort_order |-> new_sort_order])]
    ELSE [pc |-> "move_order", id |-> id, obj |-> obj,
          new_parent_id |-> new_parent_id]

\* move_division, line 252: the query for the division
BeginMove(s) ==
    /\ CanBegin(s)
    /\ \E id \in IdInputs, p \in ConcurrentParents, so \in ConcurrentSorts :
          IF get_by_id(divisions, id, FALSE) = NULL
          THEN UNCHANGED sessions
          ELSE IF Truthy(p) /\ p = id
          THEN UNCHANGED sessions
          ELSE IF Truthy(p)
          THEN Goto(s, [pc |-> "move_walk", id |-> id, obj |-> divisions[id],
                        new_parent_id |-> p, new_sort_order |-> so,
                        current_id |-> p])
          ELSE Goto(s, MoveAfterWalk(id, divisions[id], p, so))
    /\ UNCHANGED <<divisions, nextId, fkEnforced, commits, autoflush>>

\* move_division, line 261: one query of the walk of _would_create_cycle;
\* move_division holds the division only, which the walk never asks for
MoveWalk(s) ==
    /\ sessions[s].pc = "move_walk"
    /\ LET turn == WalkTurn(divisions, <<>>, sessions[s].id,
                            sessions[s].current_id)
       IN IF turn.kind = "yes" THEN Goto(s, Idle)
          ELSE IF turn.kind = "no"
          THEN Goto(s, MoveAfterWalk(sessions[s].id, sessions[s].obj,
                                     sessions[s].new_parent_id,
                                     sessions[s].new_sort_order))
          ELSE Goto(s, [sessions[s] EXCEPT !.current_id = turn.current_id])
    /\ UNCHANGED <<divisions, nextId, fkEnforced, commits, autoflush>>

\* move_division, lines 266-271: the query of _get_next_sort_order (of a
\* column: it reads the table, not the session's objects).  With autoflush a
\* changed parent_id is written before the query runs: the write raises when
\* the row is gone or when the database refuses the parent, and the query
\* sees it otherwise
MoveSortOrder(s) ==
    /\ sessions[s].pc = "move_order"
    /\ LET id == sessions[s].id
           obj == sessions[s].obj
           p == sessions[s].new_parent_id
           flushes == autoflush /\ p # obj.parent_id
           view == IF flushes /\ id \in DOMAIN divisions
                   THEN QueryView(divisions, id, p)
                   ELSE divisions
       IN IF flushes /\ (id \notin DOMAIN divisions
                            \/ ~CommitOk(view, fkEnforced))
          THEN Goto(s, Idle)
          ELSE Goto(s, [pc |-> "move", id |-> id,
                        old_parent_id |-> obj.parent_id,
                        new_parent_id |-> p,
                        writes |-> Changed(obj,
                                     [parent_id |-> p,
                                      sort_order |->
                                          _get_next_sort_order(view, p)])])
    /\ UNCHANGED <<divisions, nextId, fkEnforced, commits, autoflush>>

\* move_division, line 273: the commit of the move
CommitMove(s) ==
    /\ sessions[s].pc = "move"
    /\ CommitRow(s, sessions[s].id, sessions[s].writes,
                 [pc |-> "refresh", id |-> sessions[s].id,
                  old_parent_id |-> sessions[s].old_parent_id,
                  new_parent_id |-> sessions[s].new_parent_id])
    /\ UNCHANGED <<nextId, fkEnforced, autoflush>>

\* move_division, lines 274-277: db.refresh raises when the row is gone, and
\* the call ends without the renumbering; otherwise the session holds the
\* division, the one object move_division keeps, as stored now.  Line 277
\* compares the parents
RefreshMove(s) ==
    /\ sessions[s].pc = "refresh"
    /\ LET id == sessions[s].id
       IN IF id \in DOMAIN divisions
             /\ sessions[s].old_parent_id # sessions[s].new_parent_id
          THEN Goto(s, [pc |-> "reorder", id |-> id,
                        old_parent_id |-> sessions[s].old_parent_id,
                        new_parent_id |-> sessions[s].new_parent_id,
                        loaded |-> [j \in {id} |-> divisions[j]]])
          ELSE Goto(s, Idle)
    /\ UNCHANGED <<divisions, nextId, fkEnforced, commits, autoflush>>

NextConcurrent ==
    \E s \in Sessions :
        \/ BeginCreate(s) \/ CreateParent(s) \/ CreateSortOrder(s)
        \/ CommitCreate(s)
        \/ BeginUpdate(s) \/ UpdateCode(s) \/ UpdateParent(s) \/ UpdateWalk(s)
        \/ CommitUpdate(s)
        \/ BeginDelete(s) \/ DeleteChildren(s) \/ CommitDelete(s)
        \/ BeginMove(s) \/ MoveWalk(s) \/ MoveSortOrder(s) \/ CommitMove(s)
        \/ RefreshMove(s) \/ ReorderSiblings(s) \/ CommitReorder(s)

SpecConcurrent == Init /\ [][NextConcurrent]_vars

----------------------------------------------------------------------------
(* Vocabulary of the properties. *)

Rows == DOMAIN divisions

Live(st, i) == i \in DOMAIN st /\ ~st[i].is_deleted

\* the non-deleted rows whose parent_id is d
LiveChildren(st, d) == {c \in DOMAIN st : ~st[c].is_deleted /\ st[c].parent_id = d}

\* following parent_id links from row `from` (over rows of any deletion
\* state) arrives at row `target` within `fuel` links
RECURSIVE Reaches(_, _, _, _)
Reaches(st, from, target, fuel) ==
    IF from \notin DOMAIN st THEN FALSE
    ELSE IF from = target THEN TRUE
    ELSE IF fuel = 0 THEN FALSE
    ELSE Reaches(st, st[from].parent_id, target, fuel - 1)

\* b is a descendant of a: the parent chain of b arrives at a
Descendant(st, b, a) ==
    /\ b \in DOMAIN st
    /\ a \in DOMAIN st
    /\ b # a
    /\ Reaches(st, st[b].parent_id, a, Cardinality(DOMAIN st))

BusinessErrors ==
    {"NotFound", "CodeExists", "ParentNotFound", "SelfParent",
     "CircularReference", "HasChildren", "NotDeleted"}

\* create inputs whose code no row holds, so that the code check passes
FreshCreateInputs ==
    {inp \in CreateInputs : get_by_code(divisions, inp.code, TRUE, ById) = NULL}

----------------------------------------------------------------------------
(* C1 *)

\* C1: in every reachable state, following parent_id links from any stored
\* division (soft-deleted rows included) never returns to that division.
C1_Acyclic ==
    \A d \in Rows :
        ~Reaches(divisions, divisions[d].parent_id, d, Cardinality(Rows))

----------------------------------------------------------------------------
(* C2 *)

\* C2: for every non-deleted division a and every descendant b of a (of any
\* deletion state), update(a, parent_id = b) and move_division(a, b) both
\* end in CircularReference and leave a.parent_id as it was.
C2_DescendantRejected ==
    \A a \in Rows, b \in Rows :
        (Live(divisions, a) /\ Descendant(divisions, b, a)) =>
            /\ LET out == update(divisions, fkEnforced, a, [parent_id |-> b])
               IN /\ out.kind = "CircularReference"
                  /\ out.st[a].parent_id = divisions[a].parent_id
            /\ \A s \in SortInputs, stored \in StoredOrders :
                  LET out == move_division(divisions, fkEnforced, a, b, s, stored)
                  IN /\ out.kind = "CircularReference"
                     /\ out.st[a].parent_id = divisions[a].parent_id

----------------------------------------------------------------------------
(* C3 *)

\* C3: in every reachable state no two non-deleted divisions have codes that
\* are equal after upper-casing.
C3_CodeUnique ==
    \A i \in Rows, j \in Rows :
        (i # j /\ Live(divisions, i) /\ Live(divisions, j)) =>
            Upper(divisions[i].code) # Upper(divisions[j].code)

----------------------------------------------------------------------------
(* C4 *)

\* C4: create fails with CodeExists and adds no division whenever a
\* non-deleted division's code equals the input's code ignoring letter case.
C4_CreateCodeExists ==
    \A inp \in CreateInputs :
        (\E i \in Rows : /\ Live(divisions, i)
                         /\ Upper(divisions[i].code) = Upper(inp.code)) =>
            LET out == create(divisions, fkEnforced, nextId, inp)
            IN out.kind = "CodeExists" /\ out.st = divisions

----------------------------------------------------------------------------
(* C5 *)

\* C5: no step soft-deletes a division or removes its row while some
\* non-deleted division has parent_id equal to that division's id.
C5_NoDeleteWithChildren ==
    [][\A d \in Rows :
          (\/ d \notin DOMAIN divisions'
           \/ (~divisions[d].is_deleted /\ divisions'[d].is_deleted))
          => LiveChildren(divisions, d) = {}]_vars

----------------------------------------------------------------------------
(* C6 *)

\* C6: delete of a non-deleted division with k >= 1 non-deleted children
\* ends in HasChildren carrying exactly k (soft-deleted children are not
\* counted), for soft and hard delete alike, and the division stays
\* non-deleted.
C6_HasChildrenCount ==
    \A d \in Rows, soft_delete \in BOOLEAN :
        LET k == Cardinality(LiveChildren(divisions, d))
            out == delete(divisions, fkEnforced, d, soft_delete)
        IN (Live(divisions, d) /\ k >= 1) =>
              /\ out.kind = "HasChildren"
              /\ out.count = k
              /\ Live(out.st, d)

\* a non-deleted division with a non-deleted and a soft-deleted child, whose
\* delete ends in HasChildren
C6_Witness ==
    \E d \in Rows :
        /\ Live(divisions, d)
        /\ LiveChildren(divisions, d) # {}
        /\ \E c \in Rows : divisions[c].is_deleted /\ divisions[c].parent_id = d
        /\ delete(divisions, fkEnforced, d, TRUE).kind = "HasChildren"
        /\ delete(divisions, fkEnforced, d, FALSE).count
               = Cardinality(LiveChildren(divisions, d))

----------------------------------------------------------------------------
(* C7 *)

\* C7: whenever a step commits a division with a non-null parent_id that the
\* step has just assigned (a new row, or a changed parent_id), a row with
\* that id exists in the store; so no step commits a parent_id no row has,
\* 0 included.
C7_AssignedParentExists ==
    [][\A i \in DOMAIN divisions' :
          (/\ (i \notin Rows \/ divisions'[i].parent_id # divisions[i].parent_id)
           /\ divisions'[i].parent_id # NULL)
          => divisions'[i].parent_id \in DOMAIN divisions']_vars

\* a division whose parent_id a call assigned and committed, the id of a
\* stored division; on this store a create and an update with parent_id 0
\* and a move under an id no row has reach their commit, which is refused
C7_Witness ==
    \E d \in Rows, p \in IdInputs \ Rows, inp \in FreshCreateInputs :
        /\ Live(divisions, d)
        /\ divisions[d].parent_id \in Rows
        /\ inp.parent_id = 0
        /\ create(divisions, fkEnforced, nextId, inp).kind = "IntegrityError"
        /\ update(divisions, fkEnforced, d, [parent_id |-> 0]).kind
               = "IntegrityError"
        /\ move_division(divisions, fkEnforced, d, p, NULL, ById).kind
               = "IntegrityError"

----------------------------------------------------------------------------
(* C8 *)

\* C8: a create whose parent_id is given (and whose code is free) ends in
\* ParentNotFound exactly when no division of any deletion state has that
\* id: 0 and other ids without a row are rejected, the id of a soft-deleted
\* division is not.
C8_ParentNotFoundIff ==
    \A inp \in FreshCreateInputs :
        inp.parent_id # NULL =>
            ((create(divisions, fkEnforced, nextId, inp).kind = "ParentNotFound")
                <=> (inp.parent_id \notin Rows))

----------------------------------------------------------------------------
(* C9 *)

\* C9: for every non-deleted division d without non-deleted children, a soft
\* delete of d followed by restore of d succeeds and leaves d non-deleted
\* with every other field as before the delete.
C9_DeleteRestoreRoundTrip ==
    \A d \in Rows :
        (Live(divisions, d) /\ LiveChildren(divisions, d) = {}) =>
            LET deleted == delete(divisions, fkEnforced, d, TRUE)
                restored == restore(deleted.st, fkEnforced, d)
            IN /\ deleted.kind = "ok"
               /\ restored.kind = "ok"
               /\ restored.st[d] = divisions[d]

----------------------------------------------------------------------------
(* C10 *)

\* every call of the five operations on the current store, with its outcome
CallOutcomes ==
    {create(divisions, fkEnforced, nextId, inp) : inp \in CreateInputs}
    \cup {update(divisions, fkEnforced, id, patch) :
              id \in IdInputs, patch \in Patches}
    \cup {delete(divisions, fkEnforced, id, soft_delete) :
              id \in IdInputs, soft_delete \in BOOLEAN}
    \cup {move_division(divisions, fkEnforced, id, m[1], m[2], m[3]) :
              id \in IdInputs,
              m \in ParentInputs \X SortInputs \X StoredOrders}
    \cup {restore(divisions, fkEnforced, id) : id \in IdInputs}

\* the call left the store as it was if it ended in a business error
ErrorKeepsStore(out) == out.kind \in BusinessErrors => out.st = divisions

\* C10: every call of create, update, delete, restore or move_division that
\* ends in a business error leaves the set of rows and every field of every
\* row as they were.
C10_ErrorLeavesStore ==
    /\ \A inp \in CreateInputs :
          ErrorKeepsStore(create(divisions, fkEnforced, nextId, inp))
    /\ \A id \in IdInputs :
          /\ \A patch \in Patches :
                ErrorKeepsStore(update(divisions, fkEnforced, id, patch))
          /\ \A soft_delete \in BOOLEAN :
                ErrorKeepsStore(delete(divisions, fkEnforced, id, soft_delete))
          /\ \A p \in ParentInputs, s \in SortInputs, stored \in StoredOrders :
                ErrorKeepsStore(move_division(divisions, fkEnforced, id, p, s, stored))
          /\ ErrorKeepsStore(restore(divisions, fkEnforced, id))

\* a store with a parent and its child, where calls end in each of the seven
\* business errors
C10_Witness ==
    /\ \E d \in Rows : LiveChildren(divisions, d) # {}
    /\ \A e \in BusinessErrors : \E out \in CallOutcomes : out.kind = e

----------------------------------------------------------------------------
(* C11 *)

\* C11: for every non-deleted division d, update(d, parent_id = d) and
\* move_division(d, d) both end in SelfParent, and in no reachable state does
\* a division have its own id as parent_id.
C11_SelfParent ==
    /\ \A d \in Rows :
          Live(divisions, d) =>
              /\ update(divisions, fkEnforced, d, [parent_id |-> d]).kind
                     = "SelfParent"
              /\ \A s \in SortInputs, stored \in StoredOrders :
                    move_division(divisions, fkEnforced, d, d, s, stored).kind
                        = "SelfParent"
    /\ \A d \in Rows : divisions[d].parent_id # d

\* a non-deleted division that has a parent and a child, whose update and
\* move onto itself end in SelfParent
C11_Witness ==
    \E d \in Rows :
        /\ Live(divisions, d)
        /\ divisions[d].parent_id \in Rows
        /\ LiveChildren(divisions, d) # {}
        /\ update(divisions, fkEnforced, d, [parent_id |-> d]).kind = "SelfParent"
        /\ move_division(divisions, fkEnforced, d, d, NULL, ById).kind = "SelfParent"

----------------------------------------------------------------------------
(* C12 *)

\* the divisions, of any deletion state, whose code is exactly c
CodeHolders(st, c) == {i \in DOMAIN st : st[i].code = c}

\* C12: when every division holding code c is soft-deleted (and there is
\* one), create with code c does not end in CodeExists, and neither does an
\* update that changes a non-deleted division's code to c.
C12_SoftDeletedCodeFree ==
    \A c \in Codes :
        (/\ CodeHolders(divisions, c) # {}
         /\ \A i \in CodeHolders(divisions, c) : divisions[i].is_deleted) =>
            /\ \A inp \in CreateInputs :
                  inp.code = c =>
                      create(divisions, fkEnforced, nextId, inp).kind # "CodeExists"
            /\ \A d \in Rows :
                  Live(divisions, d) =>
                      update(divisions, fkEnforced, d, [code |-> c]).kind
                          # "CodeExists"

----------------------------------------------------------------------------
(* C13 *)

\* the two creates of the example of the spec; sort_order is left out (the
\* default of DivisionCreate, 0) or None
ExampleHQ(s) ==
    [code |-> "HQ", name |-> NameFor("HQ"), short_name |-> "NONE",
     parent_id |-> NULL, sort_order |-> s, is_internal |-> FALSE]

ExampleALPHA(s) ==
    [code |-> "ALPHA", name |-> NameFor("ALPHA"), short_name |-> "NONE",
     parent_id |-> 1, sort_order |-> s, is_internal |-> FALSE]

\* C13: from the empty store, create {HQ, parent null} gives id 1 with
\* sort_order 10; create {ALPHA, parent 1} gives id 2 with sort_order 10;
\* move_division(1, 2) then ends in CircularReference and delete(1) in
\* HasChildren carrying 1; delete(2) followed by delete(1) both succeed and
\* leave both divisions soft-deleted.
C13_SpecExample ==
    (divisions = <<>> /\ nextId = 1) =>
        \A s \in {NULL, 0} :
            LET c1 == create(divisions, fkEnforced, nextId, ExampleHQ(s))
                c2 == create(c1.st, fkEnforced, nextId + 1, ExampleALPHA(s))
                d1 == delete(c2.st, fkEnforced, 1, TRUE)
                d2 == delete(c2.st, fkEnforced, 2, TRUE)
                d3 == delete(d2.st, fkEnforced, 1, TRUE)
            IN /\ c1.kind = "ok"
               /\ DOMAIN c1.st = {1}
               /\ c1.st[1].sort_order = 10
               /\ c2.kind = "ok"
               /\ DOMAIN c2.st = {1, 2}
               /\ c2.st[2].sort_order = 10
               /\ c2.st[2].parent_id = 1
               /\ \A ms \in SortInputs, stored \in StoredOrders :
                     LET m == move_division(c2.st, fkEnforced, 1, 2, ms, stored)
                     IN m.kind = "CircularReference" /\ m.st = c2.st
               /\ d1.kind = "HasChildren" /\ d1.count = 1 /\ d1.st = c2.st
               /\ d2.kind = "ok"
               /\ d3.kind = "ok"
               /\ DOMAIN d3.st = {1, 2}
               /\ d3.st[1] = [c2.st[1] EXCEPT !.is_deleted = TRUE]
               /\ d3.st[2] = [c2.st[2] EXCEPT !.is_deleted = TRUE]

\* the store at the end of the example: HQ (id 1) and ALPHA (id 2, under 1),
\* both with sort_order 10 and both soft-deleted, after four commits
C13_Witness ==
    /\ commits = 4
    /\ Rows = {1, 2}
    /\ divisions[1] = [ExampleHQ(10) EXCEPT !.sort_order = 10]
                          @@ [is_deleted |-> TRUE]
    /\ divisions[2] = [ExampleALPHA(10) EXCEPT !.sort_order = 10]
                          @@ [is_deleted |-> TRUE]

----------------------------------------------------------------------------
(* C14 *)

\* C14: with the reads and the commit of each call as separate steps, of two
\* concurrent calls that bring the same code (two creates, or a create and
\* an update of the code) at most one commits: no committed state holds two
\* non-deleted divisions with the same code.
C14_ConcurrentCodeUnique ==
    \A i \in Rows, j \in Rows :
        (i # j /\ Live(divisions, i) /\ Live(divisions, j)) =>
            divisions[i].code # divisions[j].code

----------------------------------------------------------------------------
(* C15 *)

\* following parent_id links from `from` over non-deleted rows only arrives
\* at row `target` within `fuel` links
RECURSIVE LiveReaches(_, _, _, _)
LiveReaches(st, from, target, fuel) ==
    IF ~Live(st, from) THEN FALSE
    ELSE IF from = target THEN TRUE
    ELSE IF fuel = 0 THEN FALSE
    ELSE LiveReaches(st, st[from].parent_id, target, fuel - 1)

\* no non-deleted division is on a parent chain of non-deleted divisions
\* that returns to it
LiveAcyclic ==
    \A d \in Rows :
        Live(divisions, d) =>
            ~LiveReaches(divisions, divisions[d].parent_id, d, Cardinality(Rows))

\* the commit of a delete leaves no non-deleted child under the division it
\* deleted
DeleteLeavesNoChild ==
    \A s \in Sessions :
        (/\ sessions[s].pc = "delete"
         /\ sessions'[s].pc = "idle"
         /\ divisions' # divisions) =>
            LiveChildren(divisions', sessions[s].id) = {}

\* C15: the reads and the writes of each call are one atomic transaction:
\* under any interleaving of two calls, every committed state is free of
\* cycles (among the non-deleted divisions, which calls made one after the
\* other keep free of them), and no delete commits while a non-deleted child
\* that a concurrent call attached during its validation is under the
\* division.
C15_AtomicTransactions ==
    []LiveAcyclic /\ [][DeleteLeavesNoChild]_vars

----------------------------------------------------------------------------
(* C16 *)

\* the non-deleted children of parent_id carry 10, 20, ... in their order
Renumbered(st, parent_id) ==
    \E stored \in StoredOrders : _reorder_siblings(st, parent_id, stored) = st

\* C16: the renumbering of the old group is committed in the same step as
\* the move: in no committed state has a moved division its new parent_id
\* while the remaining children of its old parent still carry the sort_order
\* values from before the move (values that the renumbering is to change).
C16_ReorderWithMove ==
    \A s \in Sessions :
        (/\ sessions[s].pc = "reorder"
         /\ sessions[s].id \in Rows
         /\ divisions[sessions[s].id].parent_id = sessions[s].new_parent_id) =>
            Renumbered(divisions, sessions[s].old_parent_id)

----------------------------------------------------------------------------
(* C17 *)

\* the divisions, of any deletion state, whose parent_id is p
SiblingGroup(st, p) == {i \in DOMAIN st : st[i].parent_id = p}

\* C17: _get_next_sort_order(p) is 10 when no division has parent_id p (p
\* null being the root group), and otherwise 10 more than the greatest
\* sort_order among the divisions whose parent_id is p.
C17_NextSortOrder ==
    \A p \in ParentInputs :
        LET group == SiblingGroup(divisions, p)
            next == _get_next_sort_order(divisions, p)
        IN IF group = {}
           THEN next = 10
           ELSE \E m \in group :
                   /\ \A j \in group :
                         divisions[j].sort_order <= divisions[m].sort_order
                   /\ next = divisions[m].sort_order + 10

\* the root group has greatest sort_order 30, held by a soft-deleted division
\* only, and gets 40; a division without children gets 10 for its group
C17_Witness ==
    /\ \E m \in SiblingGroup(divisions, NULL) :
          /\ divisions[m].sort_order = 30
          /\ divisions[m].is_deleted
          /\ \A j \in SiblingGroup(divisions, NULL) \ {m} :
                divisions[j].sort_order < 30
    /\ _get_next_sort_order(divisions, NULL) = 40
    /\ \E d \in Rows :
          /\ SiblingGroup(divisions, d) = {}
          /\ _get_next_sort_order(divisions, d) = 10

----------------------------------------------------------------------------
(* C18 *)

\* the ids of a sequence
Elements(seq) == {seq[k] : k \in 1..Len(seq)}

\* (sort_order, name) of row i is at most that of row j
KeyLeq(st, i, j) ==
    \/ st[i].sort_order < st[j].sort_order
    \/ /\ st[i].sort_order = st[j].sort_order
       /\ NameRank(st[i].name) <= NameRank(st[j].name)

\* C18: for every non-deleted division X, get_hierarchy_tree(X) returns a
\* sequence that starts with X, holds X and every non-deleted descendant of
\* X (every non-deleted division whose parent chain leads to X) exactly once
\* and nothing else, has every element but X after its parent, and has
\* siblings in ascending (sort_order, name) order.
C18_SubtreePreOrder ==
    \A X \in Rows, stored \in StoredOrders :
        Live(divisions, X) =>
            LET r == get_hierarchy_tree(divisions, X, stored)
                seq == r.seq
            IN /\ r.kind = "ok"
               /\ Len(seq) >= 1
               /\ seq[1] = X
               /\ Elements(seq) =
                      {X} \cup {d \in Rows : /\ Live(divisions, d)
                                            /\ Descendant(divisions, d, X)}
               /\ \A k \in 1..Len(seq), l \in 1..Len(seq) :
                     k # l => seq[k] # seq[l]
               /\ \A k \in 2..Len(seq) :
                     \E l \in 1..(k - 1) : seq[l] = divisions[seq[k]].parent_id
               /\ \A k \in 1..Len(seq), l \in 1..Len(seq) :
                     (k < l /\ divisions[seq[k]].parent_id
                                  = divisions[seq[l]].parent_id) =>
                         KeyLeq(divisions, seq[k], seq[l])

----------------------------------------------------------------------------
(* C19 *)

\* C19: get_hierarchy_tree called with a root_id that resolves to no
\* non-deleted division (an id without a row, the id of a soft-deleted
\* division, or 0) returns the empty sequence.
C19_UnresolvedRootEmpty ==
    \A root_id \in {0} \cup IdInputs, stored \in StoredOrders :
        get_by_id(divisions, root_id, FALSE) = NULL =>
            get_hierarchy_tree(divisions, root_id, stored) = TreeResult("ok", <<>>)

----------------------------------------------------------------------------
(* C20 *)

\* C20: get_hierarchy_tree with root_id left out returns exactly the
\* divisions with parent_id null and is_deleted false, each once, in
\* ascending sort_order, and so never a division with a non-null parent_id.
C20_RootListing ==
    \A stored \in StoredOrders :
        LET r == get_hierarchy_tree(divisions, NULL, stored)
            seq == r.seq
        IN /\ r.kind = "ok"
           /\ Elements(seq) = {d \in Rows : /\ divisions[d].parent_id = NULL
                                           /\ ~divisions[d].is_deleted}
           /\ \A k \in 1..Len(seq), l \in 1..Len(seq) :
                 /\ k # l => seq[k] # seq[l]
                 /\ k < l => divisions[seq[k]].sort_order
                                <= divisions[seq[l]].sort_order
           /\ \A k \in 1..Len(seq) : divisions[seq[k]].parent_id = NULL

\* two non-deleted roots whose sort_order runs against their ids, and a
\* non-deleted child of one of them, which the listing leaves out
C20_Witness ==
    \E a \in Rows, b \in Rows, c \in Rows :
        /\ a < b
        /\ divisions[a].sort_order > divisions[b].sort_order
        /\ Live(divisions, c)
        /\ divisions[c].parent_id = a
        /\ get_hierarchy_tree(divisions, NULL, ById) = TreeResult("ok", <<b, a>>)

----------------------------------------------------------------------------
(* C21 *)

\* C21: a successful update(id, patch) gives the fields of the patch their
\* new values on division id and changes nothing else: every field the patch
\* does not set keeps its value, and every other division stays as it was.
C21_UpdateFrame ==
    \A id \in IdInputs, patch \in Patches :
        LET out == update(divisions, fkEnforced, id, patch)
        IN out.kind = "ok" =>
              /\ DOMAIN out.st = Rows
              /\ \A i \in Rows \ {id} : out.st[i] = divisions[i]
              /\ \A f \in DOMAIN divisions[id] :
                    out.st[id][f] = IF f \in DOMAIN patch THEN patch[f]
                                    ELSE divisions[id][f]

\* a division with a parent, a short_name of its own and a sibling, on which
\* updates that set other fields succeed
C21_Witness ==
    \E id \in Rows, other \in Rows :
        /\ other # id
        /\ divisions[id].parent_id \in Rows
        /\ divisions[id].short_name = "S"
        /\ update(divisions, fkEnforced, id, [sort_order |-> 15]).kind = "ok"
        /\ update(divisions, fkEnforced, id, [code |-> divisions[id].code]).kind
               = "ok"

----------------------------------------------------------------------------
(* C22 *)

\* C22: a successful delete(id, soft_delete) touches division id only: soft,
\* its is_deleted becomes true and nothing else changes; hard, its row is
\* removed and every other row stays, with all its fields.
C22_DeleteFrame ==
    \A id \in IdInputs, soft_delete \in BOOLEAN :
        LET out == delete(divisions, fkEnforced, id, soft_delete)
        IN out.kind = "ok" =>
              IF soft_delete
              THEN out.st = [divisions EXCEPT ![id].is_deleted = TRUE]
              ELSE /\ DOMAIN out.st = Rows \ {id}
                   /\ \A i \in Rows \ {id} : out.st[i] = divisions[i]

\* a non-deleted division with a parent and a soft-deleted sibling, whose
\* soft and hard delete both succeed
C22_Witness ==
    \E id \in Rows, sib \in Rows :
        /\ sib # id
        /\ divisions[id].parent_id \in Rows
        /\ divisions[sib].parent_id = divisions[id].parent_id
        /\ divisions[sib].is_deleted
        /\ delete(divisions, fkEnforced, id, TRUE).kind = "ok"
        /\ delete(divisions, fkEnforced, id, FALSE).kind = "ok"

----------------------------------------------------------------------------
(* C23 *)

\* (sort_order, name) of row i is strictly below that of row j
KeyLess(st, i, j) ==
    \/ st[i].sort_order < st[j].sort_order
    \/ /\ st[i].sort_order = st[j].sort_order
       /\ NameRank(st[i].name) < NameRank(st[j].name)

\* C23: _reorder_siblings(parent_id) gives the n non-deleted divisions with
\* that parent_id the sort_order values 10, 20, ..., 10 * n, one each, in
\* their previous ascending (sort_order, name) order, changes nothing else,
\* and applied a second time changes nothing.
C23_ReorderSiblings ==
    \A parent_id \in ParentInputs, stored \in StoredOrders :
        LET group == LiveChildren(divisions, parent_id)
            n == Cardinality(group)
            new == _reorder_siblings(divisions, parent_id, stored)
        IN /\ DOMAIN new = Rows
           /\ {new[i].sort_order : i \in group} = {10 * k : k \in 1..n}
           /\ \A i \in group, j \in group :
                 KeyLess(divisions, i, j) => new[i].sort_order < new[j].sort_order
           /\ \A i \in group :
                 new[i] = [divisions[i] EXCEPT !.sort_order = new[i].sort_order]
           /\ \A i \in Rows \ group : new[i] = divisions[i]
           /\ \A again \in StoredOrders :
                 _reorder_siblings(new, parent_id, again) = new

\* a group of two non-deleted siblings, equal in sort_order and name, with
\* a soft-deleted sibling beside them: the renumbering changes the store
C23_Witness ==
    \E parent_id \in ParentInputs :
        LET group == LiveChildren(divisions, parent_id)
            new == _reorder_siblings(divisions, parent_id, ById)
        IN /\ Cardinality(group) = 2
           /\ \E i \in group, j \in group :
                 /\ i # j
                 /\ divisions[i].sort_order = divisions[j].sort_order
                 /\ divisions[i].name = divisions[j].name
           /\ \E d \in Rows :
                 divisions[d].is_deleted /\ divisions[d].parent_id = parent_id
           /\ new # divisions

----------------------------------------------------------------------------
(* C24 *)

\* C24: a successful move_division(id, new_parent_id, new_sort_order) leaves
\* every division of the new parent's group other than id as it was; when
\* the parent changes, the only other changes are new sort_order values of
\* the non-deleted divisions left under the old parent, which are numbered
\* 10, 20, ...; when new_parent_id is the current parent, no division other
\* than id changes.
C24_MoveFrame ==
    \A id \in IdInputs, p \in ParentInputs, s \in SortInputs, stored \in StoredOrders :
        LET out == move_division(divisions, fkEnforced, id, p, s, stored)
            old == divisions[id].parent_id
        IN out.kind = "ok" =>
              /\ DOMAIN out.st = Rows
              /\ \A i \in Rows \ {id} :
                    divisions[i].parent_id = p => out.st[i] = divisions[i]
              /\ \A i \in Rows \ {id} :
                    \/ out.st[i] = divisions[i]
                    \/ /\ old # p
                       /\ i \in LiveChildren(divisions, old)
                       /\ out.st[i] = [divisions[i] EXCEPT
                                          !.sort_order = out.st[i].sort_order]
              /\ old # p => Renumbered(out.st, old)

\* moves that succeed on one store: one to another parent, after which a
\* division left in the old group has a new sort_order, and one within the
\* group, which lifts the division over a sibling
C24_Witness ==
    \E id \in Rows, p \in Rows, sib \in Rows :
        LET away == move_division(divisions, fkEnforced, id, p, NULL, ById)
            stay == move_division(divisions, fkEnforced, id,
                                  divisions[id].parent_id, NULL, ById)
        IN /\ sib # id
           /\ divisions[sib].parent_id = divisions[id].parent_id
           /\ p # divisions[id].parent_id
           /\ away.kind = "ok"
           /\ away.st[sib].sort_order # divisions[sib].sort_order
           /\ stay.kind = "ok"
           /\ divisions[id].sort_order < divisions[sib].sort_order
           /\ stay.st[id].sort_order > stay.st[sib].sort_order

----------------------------------------------------------------------------
(* C25 *)

\* C25: after a successful move_division(id, new_parent_id, new_sort_order)
\* the moved division has sort_order new_sort_order when one is given, also
\* when a sibling has that value already; when none is given it has the next
\* sort order of the new group, which is above the sort_order of every other
\* division whose parent_id is new_parent_id.
C25_MoveSortOrder ==
    \A id \in IdInputs, p \in ParentInputs, s \in SortInputs, stored \in StoredOrders :
        LET out == move_division(divisions, fkEnforced, id, p, s, stored)
        IN out.kind = "ok" =>
              /\ out.st[id].parent_id = p
              /\ IF s # NULL
                 THEN out.st[id].sort_order = s
                 ELSE /\ out.st[id].sort_order =
                             _get_next_sort_order(QueryView(divisions, id, p), p)
                      /\ \A i \in Rows \ {id} :
                            out.st[i].parent_id = p =>
                                out.st[id].sort_order > out.st[i].sort_order

\* a division moved to a parent that has a child with sort_order 15: given
\* 15 it ties with that child, given none it gets 25
C25_Witness ==
    \E id \in Rows, p \in Rows, sib \in Rows :
        LET given == move_division(divisions, fkEnforced, id, p, 15, ById)
            auto == move_division(divisions, fkEnforced, id, p, NULL, ById)
        IN /\ sib # id
           /\ divisions[id].parent_id # p
           /\ divisions[sib].parent_id = p
           /\ divisions[sib].sort_order = 15
           /\ given.kind = "ok"
           /\ given.st[id].sort_order = given.st[sib].sort_order
           /\ auto.kind = "ok"
           /\ auto.st[id].sort_order = 25

----------------------------------------------------------------------------
(* C26 *)

\* C26: a successful create stores the sort_order of the input when it is a
\* non-zero integer; when it is None or 0 it stores the next sort order of
\* the group of the input's parent_id, which is above the sort_order of
\* every division that has that parent_id already.
C26_CreateSortOrder ==
    \A inp \in CreateInputs :
        LET out == create(divisions, fkEnforced, nextId, inp)
        IN out.kind = "ok" =>
              /\ DOMAIN out.st = Rows \cup {nextId}
              /\ IF inp.sort_order # NULL /\ inp.sort_order # 0
                 THEN out.st[nextId].sort_order = inp.sort_order
                 ELSE /\ out.st[nextId].sort_order
                            = _get_next_sort_order(divisions, inp.parent_id)
                      /\ \A i \in SiblingGroup(divisions, inp.parent_id) :
                            out.st[nextId].sort_order > divisions[i].sort_order

\* a parent with a child of sort_order 15: a create under it stores 15 when
\* given 15, and 25 when given 0 or nothing
C26_Witness ==
    \E p \in Rows, sib \in Rows, inp \in FreshCreateInputs :
        /\ divisions[sib].parent_id = p
        /\ divisions[sib].sort_order = 15
        /\ inp.parent_id = p
        /\ \A s \in SortInputs :
              LET out == create(divisions, fkEnforced, nextId,
                                [inp EXCEPT !.sort_order = s])
              IN /\ out.kind = "ok"
                 /\ out.st[nextId].sort_order = IF s = 15 THEN 15 ELSE 25

----------------------------------------------------------------------------
(* C27 *)

\* search texts, page starts and page sizes of the listing calls
Searches == {"NONE", "hq"}

Skips == {0, 1}

Limits == {1, 20}

\* no read of store st returns division d of code c and parent p, with the
\* include_deleted flag as given where the read has one
NoReadReturns(st, d, c, p, include_deleted) ==
    /\ get_by_id(st, d, include_deleted) # d
    /\ \A stored \in StoredOrders :
          /\ get_by_code(st, c, include_deleted, stored) # d
          /\ d \notin Elements(get_children(st, p, include_deleted, stored))
          /\ \A root_id \in {NULL, 0} \cup IdInputs :
                d \notin Elements(get_hierarchy_tree(st, root_id, stored).seq)
          /\ \A search \in Searches, active_only \in BOOLEAN :
                /\ d \notin Elements(get_list(st, include_deleted, search,
                                              active_only, stored).seq)
                /\ \A skip \in Skips, limit \in Limits :
                      d \notin Elements(get_all(st, skip, limit, include_deleted,
                                                search, active_only, stored).seq)

\* C27: after a successful soft delete of division D no read with
\* include_deleted false returns D (get_by_id, get_by_code, get_children of
\* its parent, the hierarchy tree with and without root, get_list, get_all),
\* while get_by_id(D, include_deleted true) returns D with every field but
\* is_deleted as before; after a hard delete no read returns D at all.
C27_DeletedOmitted ==
    \A d \in Rows, soft_delete \in BOOLEAN :
        LET out == delete(divisions, fkEnforced, d, soft_delete)
            c == divisions[d].code
            p == divisions[d].parent_id
        IN out.kind = "ok" =>
              /\ NoReadReturns(out.st, d, c, p, FALSE)
              /\ IF soft_delete
                 THEN /\ get_by_id(out.st, d, TRUE) = d
                      /\ out.st[d] = [divisions[d] EXCEPT !.is_deleted = TRUE]
                 ELSE NoReadReturns(out.st, d, c, p, TRUE)

\* a non-deleted division that the reads return (by id, by code, as a child
\* of its parent, in its parent's tree, in the listing and its search) and
\* whose delete, soft and hard, succeeds
C27_Witness ==
    \E d \in Rows :
        LET p == divisions[d].parent_id
        IN /\ p \in Rows
           /\ get_by_id(divisions, d, FALSE) = d
           /\ get_by_code(divisions, divisions[d].code, FALSE, ById) = d
           /\ d \in Elements(get_children(divisions, p, FALSE, ById))
           /\ d \in Elements(get_hierarchy_tree(divisions, p, ById).seq)
           /\ d \in Elements(get_list(divisions, FALSE, "hq", FALSE, ById).seq)
           /\ d \in Elements(get_all(divisions, 1, 20, FALSE, "NONE", FALSE, ById).seq)
           /\ delete(divisions, fkEnforced, d, TRUE).kind = "ok"
           /\ delete(divisions, fkEnforced, d, FALSE).kind = "ok"

----------------------------------------------------------------------------
(* C28 *)

\* C28: in every reachable state the walk of _would_create_cycle, from any
\* potential parent for any division, and the recursion of _get_subtree,
\* from any root, come to an end (neither meets a division a second time).
C28_WalksTerminate ==
    /\ \A division_id \in IdInputs, potential_parent_id \in ParentInputs :
          _would_create_cycle(divisions, division_id, potential_parent_id)
              # "loop"
    /\ \A root_id \in IdInputs, stored \in StoredOrders :
          _get_subtree(divisions, root_id, stored, {}).kind # "RecursionError"

----------------------------------------------------------------------------
(* C29 *)

\* C29: update(id, patch) with patch.parent_id = 0 on a non-deleted division
\* succeeds and places it at root level: afterwards its parent_id is null
\* and the hierarchy tree without root lists it.
C29_ZeroMeansRoot ==
    \A id \in Rows :
        Live(divisions, id) =>
            LET out == update(divisions, fkEnforced, id, [parent_id |-> 0])
            IN /\ out.kind = "ok"
               /\ out.st[id].parent_id = NULL
               /\ \A stored \in StoredOrders :
                     id \in Elements(get_hierarchy_tree(out.st, NULL, stored).seq)

----------------------------------------------------------------------------
(* C30 *)

\* the divisions the trees of the listed roots hold together
InSomeTree(st, stored) ==
    UNION {Elements(get_hierarchy_tree(st, r, stored).seq) :
              r \in Elements(get_hierarchy_tree(st, NULL, stored).seq)}

\* C30: in every reachable state every non-deleted division is a root
\* (parent_id null) or has a parent that exists and is not deleted, and the
\* trees of the roots of the rootless listing together hold every
\* non-deleted division.
C30_NoOrphan ==
    /\ \A d \in Rows :
          Live(divisions, d) =>
              \/ divisions[d].parent_id = NULL
              \/ Live(divisions, divisions[d].parent_id)
    /\ \A stored \in StoredOrders :
          {d \in Rows : Live(divisions, d)} \subseteq InSomeTree(divisions, stored)

====
